---- MODULE Spec2Model ----
(***************************************************************************)
(* Job board widget (script.js): CSV ingestion, record validation, filter  *)
(* controls, filter/search and card rendering, driven by the startup fetch *)
(* and by the search-input and filter-click listeners.                     *)
(*                                                                         *)
(* A JavaScript string is a sequence of one-character strings.  The value  *)
(* undefined is the one-element sequence Undefined, which is no string.    *)
(***************************************************************************)
EXTENDS Integers, Sequences, FiniteSets, TLC

VARIABLES
    pc,                  \* position of initJobBoard / of the unit harness
    fetchCount,          \* number of fetch() calls issued
    response,            \* status of the response received, 0 before it
    csvText,             \* body of the response (argument of parseCSV)
    allJobs,             \* script.js:6
    currentFilter,       \* script.js:7
    jobSearchInput,      \* value of the search input element
    jobCardsContainer,   \* content of the results container
    noResultsDiv,        \* style.display of the no-results indicator
    filterCategoriesDiv, \* buttons of the filter container
    clickListener,       \* the delegated click listener is attached
    callArg,             \* unit harness: argument of the function applied
    callRet,             \* unit harness: value it returned
    lastRun              \* the most recent handler run: which, and what it rendered

vars == <<pc, fetchCount, response, csvText, allJobs, currentFilter, jobSearchInput,
          jobCardsContainer, noResultsDiv, filterCategoriesDiv, clickListener,
          callArg, callRet, lastRun>>

----------------------------------------------------------------------------
(* Strings *)

Undefined == <<"undefined-value">>

UpperChars == <<"A","B","C","D","E","F","G","H","I","J","K","L","M",
                "N","O","P","Q","R","S","T","U","V","W","X","Y","Z">>
LowerChars == <<"a","b","c","d","e","f","g","h","i","j","k","l","m",
                "n","o","p","q","r","s","t","u","v","w","x","y","z">>

WhiteSpace == {" ", "\t", "\r", "\n"}

Range(f) == {f[i] : i \in DOMAIN f}

toLowerCaseChar(c) ==
    IF \E i \in 1..26 : UpperChars[i] = c
    THEN LowerChars[CHOOSE i \in 1..26 : UpperChars[i] = c]
    ELSE c

toUpperCaseChar(c) ==
    IF \E i \in 1..26 : LowerChars[i] = c
    THEN UpperChars[CHOOSE i \in 1..26 : LowerChars[i] = c]
    ELSE c

toLowerCase(s) == [i \in 1..Len(s) |-> toLowerCaseChar(s[i])]

toUpperCase(s) == [i \in 1..Len(s) |-> toUpperCaseChar(s[i])]

\* String.prototype.trim
trim(s) ==
    IF \A i \in 1..Len(s) : s[i] \in WhiteSpace
    THEN <<>>
    ELSE LET first == CHOOSE i \in 1..Len(s) :
                          /\ s[i] \notin WhiteSpace
                          /\ \A j \in 1..(i-1) : s[j] \in WhiteSpace
             last  == CHOOSE i \in 1..Len(s) :
                          /\ s[i] \notin WhiteSpace
                          /\ \A j \in (i+1)..Len(s) : s[j] \in WhiteSpace
         IN  SubSeq(s, first, last)

\* s.replace(/"/g, '')
stripQuotes(s) == SelectSeq(s, LAMBDA c : c # "\"")

\* String.prototype.split with a one-character separator
RECURSIVE split(_, _)
split(s, sep) ==
    IF \A i \in 1..Len(s) : s[i] # sep
    THEN <<s>>
    ELSE LET i == CHOOSE i \in 1..Len(s) :
                      s[i] = sep /\ \A j \in 1..(i-1) : s[j] # sep
         IN  <<SubSeq(s, 1, i-1)>> \o split(SubSeq(s, i+1, Len(s)), sep)

\* String.prototype.includes
includes(s, sub) ==
    \E i \in 1..(Len(s) - Len(sub) + 1) : SubSeq(s, i, i + Len(sub) - 1) = sub

\* Array.prototype.join('')
RECURSIVE joinEmpty(_)
joinEmpty(ss) == IF ss = <<>> THEN <<>> ELSE Head(ss) \o joinEmpty(Tail(ss))

\* `${v}` : undefined is interpolated as the text "undefined"
interpolate(v) ==
    IF v = Undefined THEN <<"u","n","d","e","f","i","n","e","d">> ELSE v

\* arr[index], 1-based here; past the end is undefined
at(arr, index) == IF index \in 1..Len(arr) THEN arr[index] ELSE Undefined

\* job.key
get(job, key) == IF key \in DOMAIN job THEN job[key] ELSE Undefined

----------------------------------------------------------------------------
(* parseCSV, script.js:23-51 *)

\* lines 32-38: 'Job Title' -> 'jobTitle'
normalizeKey(header) ==
    LET words == split(toLowerCase(header), " ")
        cap(w) == IF w = <<>> THEN <<>>
                  ELSE <<toUpperCaseChar(w[1])>> \o SubSeq(w, 2, Len(w))
    IN  IF Len(words) > 1
        THEN words[1] \o joinEmpty([k \in 1..(Len(words)-1) |-> cap(words[k+1])])
        ELSE toLowerCase(header)

\* lines 28 and 43: split(',').map(v => v.trim().replace(/"/g, ''))
splitRow(line) ==
    LET toks == split(line, ",")
    IN  [i \in 1..Len(toks) |-> stripQuotes(trim(toks[i]))]

\* a variant of makeJob in which the first column of a key keeps its value
makeJob_FirstWins(keys, values) ==
    [k \in Range(keys) |->
        LET first == CHOOSE i \in 1..Len(keys) :
                         keys[i] = k /\ \A j \in 1..(i-1) : keys[j] # k
        IN  at(values, first)]

\* lines 44-47: keys.forEach((key, index) => job[key] = values[index]);
\* a later column with the same key overwrites the earlier one
makeJob(keys, values) ==
    [k \in Range(keys) |->
        LET last == CHOOSE i \in 1..Len(keys) :
                        keys[i] = k /\ \A j \in (i+1)..Len(keys) : keys[j] # k
        IN  at(values, last)]

parseCSV(text) ==
    LET lines   == split(trim(text), "\n")
        headers == splitRow(lines[1])
        keys    == [i \in 1..Len(headers) |-> normalizeKey(headers[i])]
    IN  IF Len(lines) = 0 THEN <<>>
        ELSE [n \in 1..(Len(lines)-1) |-> makeJob(keys, splitRow(lines[n+1]))]

----------------------------------------------------------------------------
(* Field names of a job record *)

jobTitle    == <<"j","o","b","T","i","t","l","e">>
company     == <<"c","o","m","p","a","n","y">>
type        == <<"t","y","p","e">>
location    == <<"l","o","c","a","t","i","o","n">>
salary      == <<"s","a","l","a","r","y">>
description == <<"d","e","s","c","r","i","p","t","i","o","n">>
applyLink   == <<"a","p","p","l","y","L","i","n","k">>
status      == <<"s","t","a","t","u","s">>

All == <<"A","l","l">>

\* a value in a boolean context: undefined and '' are falsy
truthy(v) == v # Undefined /\ v # <<>>

----------------------------------------------------------------------------
(* createJobCardHTML, script.js:199-243 (the later declaration of the two   *)
(* replaces the one at lines 59-78)                                        *)

DescriptionLimit == 100

NoCard ==
    [threw |-> TRUE, statusTag |-> <<>>, badgeClass |-> "", icon |-> "",
     title |-> <<>>, company |-> <<>>, type |-> <<>>, location |-> <<>>,
     salary |-> <<>>, description |-> <<>>,
     applyTag |-> "", applyHref |-> <<>>, applyLabel |-> <<>>]

\* lines 200-203
iconOf(t) ==
    IF includes(toLowerCase(t), <<"w","f","h">>) THEN "fas fa-home"
    ELSE IF includes(toLowerCase(t), <<"d","a","t","a"," ","e","n","t","r","y">>) THEN "fas fa-keyboard"
    ELSE IF includes(toLowerCase(t), <<"t","e","l","e","c","a","l","l","i","n","g">>) THEN "fas fa-phone-alt"
    ELSE "fas fa-briefcase"

\* line 205
jobStatusOf(job) ==
    IF truthy(get(job, status)) THEN trim(get(job, status)) ELSE <<"A","c","t","i","v","e">>

\* a variant of isClosedStatus that forgets "Filled"
isClosedStatus_ExpiredOnly(jobStatus) == jobStatus = <<"E","x","p","i","r","e","d">>

\* line 211
isClosedStatus(jobStatus) == jobStatus = <<"E","x","p","i","r","e","d">> \/ jobStatus = <<"F","i","l","l","e","d">>

createJobCardHTML(job) ==
    IF get(job, type) = Undefined \/ get(job, description) = Undefined
    THEN NoCard     \* TypeError: toLowerCase / substring of undefined
    ELSE
    LET jobStatus     == jobStatusOf(job)
        isApplyActive == ~isClosedStatus(jobStatus)
        desc          == get(job, description)
    IN  [threw       |-> FALSE,
         statusTag   |-> toUpperCase(jobStatus),
         badgeClass  |-> IF isApplyActive THEN "status-active" ELSE "status-closed",
         icon        |-> iconOf(get(job, type)),
         title       |-> interpolate(get(job, jobTitle)),
         company     |-> interpolate(get(job, company)),
         type        |-> get(job, type),
         location    |-> interpolate(get(job, location)),
         salary      |-> IF truthy(get(job, salary)) THEN get(job, salary)
                         ELSE <<"C","o","m","p","e","t","i","t","i","v","e">>,
         description |-> SubSeq(desc, 1, IF Len(desc) < DescriptionLimit
                                         THEN Len(desc) ELSE DescriptionLimit)
                         \o <<".",".",".">>,
         applyTag    |-> IF isApplyActive THEN "a" ELSE "button",
         applyHref   |-> IF isApplyActive THEN interpolate(get(job, applyLink))
                         ELSE <<>>,
         applyLabel  |-> IF isApplyActive THEN <<"A","p","p","l","y"," ","N","o","w">>
                         ELSE <<"A","p","p","l","i","c","a","t","i","o","n"," ">> \o jobStatus]

----------------------------------------------------------------------------
(* The results container and renderJobs, script.js:84-94 *)

NoMessage == [text |-> "", args |-> <<>>]

\* innerHTML of the results container: the page's own markup before the
\* script writes to it, a list of cards (empty for ''), or the error block
InitialMarkup    == [kind |-> "initial", cards |-> <<>>, message |-> NoMessage]
Cards(cs)        == [kind |-> "cards",   cards |-> cs,   message |-> NoMessage]
ErrorBlock(msg)  == [kind |-> "error",   cards |-> <<>>, message |-> msg]

\* result: the container, the indicator, and whether a TypeError escaped
renderJobs(jobsToRender) ==
    LET html == [i \in 1..Len(jobsToRender) |-> createJobCardHTML(jobsToRender[i])]
    IN  IF Len(jobsToRender) = 0
        THEN [container |-> Cards(<<>>), noResults |-> "block", threw |-> FALSE]
        ELSE IF \E i \in 1..Len(html) : html[i].threw
        THEN [container |-> Cards(<<>>), noResults |-> "none", threw |-> TRUE]
        ELSE [container |-> Cards(html), noResults |-> "none", threw |-> FALSE]

----------------------------------------------------------------------------
(* setupFilters, script.js:99-123 *)

\* [...new Set(xs)] : first occurrences, in order
RECURSIVE unique(_)
unique(xs) ==
    IF xs = <<>> THEN <<>>
    ELSE LET init == unique(SubSeq(xs, 1, Len(xs) - 1))
             x    == xs[Len(xs)]
         IN  IF x \in Range(init) THEN init ELSE Append(init, x)

\* lines 101-110: the buttons written to the filter container
filterButtons(jobs) ==
    LET jobTypes == unique([i \in 1..Len(jobs) |-> trim(get(jobs[i], type))])
        filters  == <<All>> \o jobTypes
    IN  [i \in 1..Len(filters) |->
            [type |-> filters[i], active |-> filters[i] = All]]

\* line 101 reads job.type.trim() of every job first
setupFiltersThrows(jobs) == \E i \in 1..Len(jobs) : get(jobs[i], type) = Undefined

----------------------------------------------------------------------------
(* filterAndSearchJobs, script.js:128-149 *)

\* lines 139-145: the || chain reads the fields left to right and stops at
\* the first that contains the term; reading a method of undefined throws
RECURSIVE matchFields(_, _, _)
matchFields(job, searchTerm, fields) ==
    IF fields = <<>> THEN "false"
    ELSE IF get(job, Head(fields)) = Undefined THEN "throw"
    ELSE IF includes(toLowerCase(get(job, Head(fields))), searchTerm) THEN "true"
    ELSE matchFields(job, searchTerm, Tail(fields))

searchFields == <<jobTitle, company, description, location, type>>

\* lines 129-146: the jobs handed to renderJobs; threw if a TypeError
\* escaped before renderJobs was reached
filteredJobs(jobs, filter, value) ==
    LET searchTerm == trim(toLowerCase(value))
        catThrows  == filter # All
                      /\ \E i \in 1..Len(jobs) : get(jobs[i], type) = Undefined
        byCategory == IF filter # All
                      THEN SelectSeq(jobs, LAMBDA job : trim(get(job, type)) = filter)
                      ELSE jobs
        verdict    == [i \in 1..Len(byCategory) |->
                          matchFields(byCategory[i], searchTerm, searchFields)]
        searchThrows == searchTerm # <<>>
                        /\ \E i \in 1..Len(byCategory) : verdict[i] = "throw"
        bySearch   == IF searchTerm # <<>>
                      THEN SelectSeq(byCategory, LAMBDA job :
                               matchFields(job, searchTerm, searchFields) = "true")
                      ELSE byCategory
    IN  IF catThrows \/ searchThrows
        THEN [threw |-> TRUE, jobs |-> <<>>]
        ELSE [threw |-> FALSE, jobs |-> bySearch]

\* the effect of one call on the page, with the filter and input value given
filterAndSearchJobs(filter, value) ==
    LET f == filteredJobs(allJobs, filter, value)
        r == renderJobs(f.jobs)
    IN  IF f.threw
        THEN [container |-> jobCardsContainer, noResults |-> noResultsDiv,
              threw |-> TRUE, rendered |-> FALSE, jobsToRender |-> <<>>]
        ELSE [container |-> r.container, noResults |-> r.noResults,
              threw |-> r.threw, rendered |-> TRUE, jobsToRender |-> f.jobs]

----------------------------------------------------------------------------
(* Inputs of the board: responses of the sheet and text typed by the user *)

MaxRows == 2

HeaderA == <<"J","o","b"," ","T","i","t","l","e",",","C","o","m","p","a","n","y",",","T","y","p","e",",","L","o","c","a","t","i","o","n",",","S","a","l","a","r","y",",","D","e","s","c","r","i","p","t","i","o","n",",","A","p","p","l","y"," ","L","i","n","k",",","S","t","a","t","u","s">>
HeaderB == <<"J","o","b"," ","T","i","t","l","e",",","T","y","p","e",",","D","e","s","c","r","i","p","t","i","o","n",",","C","o","m","p","a","n","y",",","L","o","c","a","t","i","o","n">>

RowsA == { <<"D","e","v",",","A","c","m","e",",","W","F","H",",","P","B","T",",","1","0","k",",","d","e","s","k"," ","j","o","b",",","u","1",",","A","c","t","i","v","e">>,
           <<"O","p","s",",","B","e","t","a",","," ","w","f","h"," ",",","P","B","T",",",",","c","a","l","l","s",",","u","2",",","E","x","p","i","r","e","d">>,
           <<"T","e","l",",","A","c","m","e",",","A","l","l",",","P","B","T",",","5","k",",","p","h","o","n","e">>,
           <<"D","e","v",",","A","c","m","e",",","W","F","H",",","P","B","T">>,
           <<"D","e","v",",","A","c","m","e">>,
           <<"J","O","B","T","I","T","L","E",",","A","c","m","e",",","W","F","H",",","P","B","T",",","1",",","d">>,
           <<" ",",","A","c","m","e",",","W","F","H",",","P","B","T",",","1",",","d">> }

RowsB == { <<"D","e","v",",","W","F","H",",","d","e","s","k"," ","j","o","b",",","A","c","m","e",",","P","B","T">>,
           <<"O","p","s",",","D","a","t","a"," ","E","n","t","r","y",",","t","y","p","i","n","g">>,
           <<"T","e","l",",","W","F","H",",","c","a","l","l","s",",","B","e","t","a">> }

SeqsUpTo(S, n) == UNION {[1..k -> S] : k \in 0..n}

RECURSIVE joinLines(_)
joinLines(ls) ==
    IF ls = <<>> THEN <<>> ELSE <<"\n">> \o Head(ls) \o joinLines(Tail(ls))

Responses ==
    {HeaderA \o joinLines(rows) : rows \in SeqsUpTo(RowsA, MaxRows)} \cup
    {HeaderB \o joinLines(rows) : rows \in SeqsUpTo(RowsB, MaxRows)}

Statuses == {200, 404, 500}

Typed == { <<>>, <<"w","f","h">>, <<" ","A","C","M","E">>, <<"z","z">> }

----------------------------------------------------------------------------
(* initJobBoard, script.js:157-187, and the listeners of lines 113-122, 190 *)

NoRun == [handler |-> "none", threw |-> FALSE, rendered |-> FALSE,
          jobsToRender |-> <<>>]

Init ==
    /\ pc = "init"
    /\ fetchCount = 0
    /\ response = 0
    /\ csvText = <<>>
    /\ allJobs = <<>>
    /\ currentFilter = All
    /\ jobSearchInput = <<>>
    /\ jobCardsContainer = InitialMarkup
    /\ noResultsDiv = "initial"
    /\ filterCategoriesDiv = <<>>
    /\ clickListener = FALSE
    /\ callArg = <<>>
    /\ callRet = <<>>
    /\ lastRun = NoRun

\* a variant of responseOk that forgets the upper end of the 2xx range
responseOk_NoUpperEnd(st) == st >= 200

\* line 160: response.ok
responseOk(st) == st >= 200 /\ st <= 299

\* line 161
httpErrorMessage(st) == [text |-> "HTTP error! status: ", args |-> <<st>>]

\* line 171
noValidDataMessage ==
    [text |-> "No valid job data found after parsing.", args |-> <<>>]

\* the message of a TypeError raised by a method call on undefined
typeErrorMessage == [text |-> "TypeError", args |-> <<>>]

\* the message of a rejected fetch()
networkErrorMessage == [text |-> "Failed to fetch", args |-> <<>>]

\* the message of a rejected response.text()
bodyErrorMessage == [text |-> "network error", args |-> <<>>]

\* a variant of isValidJob that forgets the header-token test
isValidJob_TitleOnly(job) == truthy(get(job, jobTitle))

\* line 168
isValidJob(job) ==
    /\ truthy(get(job, jobTitle))
    /\ toLowerCase(get(job, jobTitle)) # <<"j","o","b","t","i","t","l","e">>

\* line 193: DOMContentLoaded calls initJobBoard, which issues the fetch
DOMContentLoaded ==
    /\ pc = "init"
    /\ pc' = "awaitFetch"
    /\ fetchCount' = fetchCount + 1
    /\ UNCHANGED <<response, csvText, allJobs, currentFilter, jobSearchInput,
                   jobCardsContainer, noResultsDiv, filterCategoriesDiv,
                   clickListener, callArg, callRet, lastRun>>

\* lines 177-186: the catch block
Catch(msg) ==
    /\ pc' = "Error"
    /\ jobCardsContainer' = ErrorBlock(msg)
    /\ lastRun' = [handler |-> "initJobBoard", threw |-> TRUE,
                   rendered |-> FALSE, jobsToRender |-> <<>>]

\* line 159: the fetch promise rejects
FetchRejected ==
    /\ pc = "awaitFetch"
    /\ Catch(networkErrorMessage)
    /\ UNCHANGED <<fetchCount, response, csvText, allJobs, currentFilter,
                   jobSearchInput, noResultsDiv, filterCategoriesDiv,
                   clickListener, callArg, callRet>>

\* lines 159-163: the fetch promise resolves with a response
FetchResolved(st) ==
    /\ pc = "awaitFetch"
    /\ IF responseOk(st)
       THEN /\ pc' = "awaitText"
            /\ UNCHANGED <<jobCardsContainer, lastRun>>
       ELSE Catch(httpErrorMessage(st))
    /\ response' = st
    /\ UNCHANGED <<fetchCount, csvText, allJobs, currentFilter,
                   jobSearchInput, noResultsDiv, filterCategoriesDiv,
                   clickListener, callArg, callRet>>

\* line 163: response.text() rejects
TextRejected ==
    /\ pc = "awaitText"
    /\ Catch(bodyErrorMessage)
    /\ UNCHANGED <<fetchCount, response, csvText, allJobs, currentFilter,
                   jobSearchInput, noResultsDiv, filterCategoriesDiv,
                   clickListener, callArg, callRet>>

\* lines 163-186: response.text() resolves; the rest of the function runs
\* without another await
TextResolved(text) ==
    LET valid == SelectSeq(parseCSV(text), isValidJob)
        r     == renderJobs(valid)
    IN
    /\ pc = "awaitText"
    /\ csvText' = text
    /\ allJobs' = valid
    /\ IF Len(valid) = 0
       THEN /\ Catch(noValidDataMessage)
            /\ UNCHANGED <<noResultsDiv, filterCategoriesDiv, clickListener>>
       ELSE IF setupFiltersThrows(valid)
       THEN /\ Catch(typeErrorMessage)
            /\ UNCHANGED <<noResultsDiv, filterCategoriesDiv, clickListener>>
       ELSE /\ filterCategoriesDiv' = filterButtons(valid)
            /\ clickListener' = TRUE
            /\ noResultsDiv' = r.noResults
            /\ IF r.threw
               THEN Catch(typeErrorMessage)
               ELSE /\ pc' = "Ready"
                    /\ jobCardsContainer' = r.container
                    /\ lastRun' = [handler |-> "initJobBoard", threw |-> FALSE,
                                   rendered |-> TRUE, jobsToRender |-> valid]
    /\ UNCHANGED <<fetchCount, response, currentFilter, jobSearchInput,
                   callArg, callRet>>

\* line 190: the user changes the search text; the input listener runs
\* (it is attached when the script loads, whatever initJobBoard has done)
SearchInput(value) ==
    LET r == filterAndSearchJobs(currentFilter, value)
    IN
    /\ jobSearchInput' = value
    /\ jobCardsContainer' = r.container
    /\ noResultsDiv' = r.noResults
    /\ lastRun' = [handler |-> "input", threw |-> r.threw,
                   rendered |-> r.rendered, jobsToRender |-> r.jobsToRender]
    /\ UNCHANGED <<pc, fetchCount, response, csvText, allJobs, currentFilter,
                   filterCategoriesDiv, clickListener, callArg, callRet>>

\* lines 113-122: the user clicks the n-th filter button
FilterClick(n) ==
    LET r == filterAndSearchJobs(filterCategoriesDiv[n].type, jobSearchInput)
    IN
    /\ clickListener
    /\ n \in DOMAIN filterCategoriesDiv
    /\ filterCategoriesDiv' =
           [i \in 1..Len(filterCategoriesDiv) |->
               [filterCategoriesDiv[i] EXCEPT !.active = (i = n)]]
    /\ currentFilter' = filterCategoriesDiv[n].type
    /\ jobCardsContainer' = r.container
    /\ noResultsDiv' = r.noResults
    /\ lastRun' = [handler |-> "click", threw |-> r.threw,
                   rendered |-> r.rendered, jobsToRender |-> r.jobsToRender]
    /\ UNCHANGED <<pc, fetchCount, response, csvText, allJobs, jobSearchInput,
                   clickListener, callArg, callRet>>

Load ==
    \/ DOMContentLoaded
    \/ FetchRejected
    \/ \E st \in Statuses : FetchResolved(st)
    \/ TextRejected
    \/ \E text \in Responses : TextResolved(text)

Next ==
    \/ Load
    \/ \E value \in Typed : SearchInput(value)
    \/ \E n \in 1..(1 + MaxRows) : FilterClick(n)

Spec == Init /\ [][Next]_vars

\* the browser runs initJobBoard on DOMContentLoaded and resumes it when the
\* request settles
FairSpec == Spec /\ WF_vars(Load)

----------------------------------------------------------------------------
(* parseCSV applied to every short text over a small alphabet, and to the   *)
(* two-column example                                                      *)

MaxLen == 5

ParseAlphabet == {"a", "B", ",", "\n", " ", "\""}

ExampleText == <<"J","o","b"," ","T","i","t","l","e",",","C","o","m","p","a","n","y","\n","D","e","v",",","A","c","m","e">>

ParseInputs == SeqsUpTo(ParseAlphabet, MaxLen) \cup {ExampleText}

InitParse ==
    /\ pc = "call"
    /\ callArg \in ParseInputs
    /\ callRet = <<>>
    /\ fetchCount = 0
    /\ response = 0
    /\ csvText = <<>>
    /\ allJobs = <<>>
    /\ currentFilter = All
    /\ jobSearchInput = <<>>
    /\ jobCardsContainer = InitialMarkup
    /\ noResultsDiv = "initial"
    /\ filterCategoriesDiv = <<>>
    /\ clickListener = FALSE
    /\ lastRun = NoRun

ParseCall ==
    /\ pc = "call"
    /\ pc' = "return"
    /\ callRet' = parseCSV(callArg)
    /\ UNCHANGED <<fetchCount, response, csvText, allJobs, currentFilter,
                   jobSearchInput, jobCardsContainer, noResultsDiv,
                   filterCategoriesDiv, clickListener, callArg, lastRun>>

NextParse == ParseCall

SpecParse == InitParse /\ [][NextParse]_vars

----------------------------------------------------------------------------
(* createJobCardHTML applied to records over a small set of field values *)

StatusValues == { Undefined, <<>>, <<"A","c","t","i","v","e">>, <<"E","x","p","i","r","e","d">>, <<"F","i","l","l","e","d">>,
                  <<"e","x","p","i","r","e","d">>, <<" ","E","x","p","i","r","e","d">>, <<"C","l","o","s","e","d">> }
TypeValues   == { Undefined, <<"W","F","H">>, <<"T","e","l","e","c","a","l","l","i","n","g">> }
DescValues   == { Undefined, <<"d","e","s","k"," ","j","o","b">> }
LinkValues   == { Undefined, <<"u","1">> }
SalaryValues == { <<>>, <<"1","0","k">> }

jobOf(t, d, l, sal, st) ==
    (jobTitle :> <<"D","e","v">>) @@ (company :> <<"A","c","m","e">>) @@ (type :> t) @@
    (location :> <<"P","B","T">>) @@ (salary :> sal) @@ (description :> d) @@
    (applyLink :> l) @@ (status :> st)

CardInputs ==
    { jobOf(t, d, l, sal, st) : t \in TypeValues, d \in DescValues,
      l \in LinkValues, sal \in SalaryValues, st \in StatusValues }

InitCard ==
    /\ pc = "call"
    /\ callArg \in CardInputs
    /\ callRet = NoCard
    /\ fetchCount = 0
    /\ response = 0
    /\ csvText = <<>>
    /\ allJobs = <<>>
    /\ currentFilter = All
    /\ jobSearchInput = <<>>
    /\ jobCardsContainer = InitialMarkup
    /\ noResultsDiv = "initial"
    /\ filterCategoriesDiv = <<>>
    /\ clickListener = FALSE
    /\ lastRun = NoRun

CardCall ==
    /\ pc = "call"
    /\ pc' = "return"
    /\ callRet' = createJobCardHTML(callArg)
    /\ UNCHANGED <<fetchCount, response, csvText, allJobs, currentFilter,
                   jobSearchInput, jobCardsContainer, noResultsDiv,
                   filterCategoriesDiv, clickListener, callArg, lastRun>>

NextCard == CardCall

SpecCard == InitCard /\ [][NextCard]_vars

----------------------------------------------------------------------------
(* Vocabulary of the properties, stated without the operators above *)

isLoading == pc \in {"init", "awaitFetch", "awaitText"}

present(job, f) == f \in DOMAIN job /\ job[f] # Undefined

\* the record's title is missing, empty, or the header token
badTitle(job) ==
    \/ ~present(job, jobTitle)
    \/ Len(job[jobTitle]) = 0
    \/ toLowerCase(job[jobTitle]) = <<"j","o","b","t","i","t","l","e">>

\* the search text of the criteria, as the board derives it from the input
criteriaText == trim(toLowerCase(jobSearchInput))

\* the record satisfies the criteria {category, searchText}
matches(job, category, searchText) ==
    /\ \/ category = All
       \/ present(job, type) /\ trim(job[type]) = category
    /\ \/ searchText = <<>>
       \/ \E f \in {jobTitle, company, description, location, type} :
              present(job, f) /\ includes(toLowerCase(job[f]), searchText)

\* the records of jobs that satisfy the criteria, in input order
expected(jobs, category, searchText) ==
    SelectSeq(jobs, LAMBDA job : matches(job, category, searchText))

cardsOf(jobs) == [i \in 1..Len(jobs) |-> createJobCardHTML(jobs[i])]

errorShown == jobCardsContainer.kind = "error"

----------------------------------------------------------------------------
(* C1: Ready and Error are terminal.  Once initJobBoard has ended in Error  *)
(* the results container keeps showing the error block whatever search or  *)
(* filter events follow, and once Ready no event leads to Loading or Error. *)
C1_TerminalStates ==
    [][ /\ pc = "Error" =>
              pc' = "Error" /\ jobCardsContainer' = jobCardsContainer
        /\ pc = "Ready" =>
              pc' = "Ready" /\ jobCardsContainer'.kind # "error" ]_vars

(* C2: every load ends in exactly one of Ready (cards shown) or Error       *)
(* (error block shown); it ends in Error with the HTTP-status message when *)
(* the response status is not 2xx, and with "No valid job data found after *)
(* parsing." when no parsed record survives validation; one fetch at most  *)
(* is ever issued and an ended load never starts again.                    *)
C2_LoadEnds ==
    /\ [](fetchCount <= 1)
    /\ [][ (isLoading /\ ~isLoading') =>
             /\ pc' \in {"Ready", "Error"}
             /\ (pc' = "Ready") <=> (jobCardsContainer'.kind = "cards")
             /\ (pc' = "Error") <=> (jobCardsContainer'.kind = "error")
             /\ (response' # 0 /\ response' \notin 200..299) =>
                    /\ pc' = "Error"
                    /\ jobCardsContainer'.message =
                           [text |-> "HTTP error! status: ",
                            args |-> <<response'>>]
             /\ (csvText' # <<>> /\
                 \A i \in 1..Len(parseCSV(csvText')) :
                     badTitle(parseCSV(csvText')[i])) =>
                    /\ pc' = "Error"
                    /\ jobCardsContainer'.message =
                           [text |-> "No valid job data found after parsing.",
                            args |-> <<>>] ]_vars
    /\ [][ ~isLoading => (pc' = pc /\ fetchCount' = fetchCount) ]_vars
    /\ <>(~isLoading)

\* a load that parsed records, none of them valid, and ended in Error
C2_Witness ==
    /\ pc = "Error"
    /\ fetchCount = 1
    /\ Len(parseCSV(csvText)) > 0
    /\ jobCardsContainer.message.text = "No valid job data found after parsing."

(* C3: no partial-success rendering.  Whenever the error block is shown,   *)
(* the success path has produced no filter controls (and no listener for   *)
(* them) and no job cards.                                                 *)
C3_NoPartialSuccess ==
    errorShown =>
        /\ filterCategoriesDiv = <<>>
        /\ ~clickListener
        /\ jobCardsContainer.cards = <<>>

(* C4: on the Ready board the no-results indicator is shown iff no card is *)
(* shown; after a search or filter event whose criteria no record matches  *)
(* the container is empty and the indicator shown; with category "All" and *)
(* empty search text every valid record is shown and the indicator hidden. *)
C4_NoResultsIndicator ==
    pc = "Ready" =>
        /\ (noResultsDiv = "block") <=> (jobCardsContainer.cards = <<>>)
        /\ (lastRun.handler \in {"input", "click"} /\
            expected(allJobs, currentFilter, criteriaText) = <<>>) =>
               (jobCardsContainer.cards = <<>> /\ noResultsDiv = "block")
        /\ (currentFilter = All /\ jobSearchInput = <<>>) =>
               (jobCardsContainer.cards = cardsOf(allJobs) /\ noResultsDiv = "none")

(* C5: what filterAndSearchJobs hands to the renderer is exactly the       *)
(* records, in input order, whose trimmed type equals the category (or the *)
(* category is "All") and one of whose five searched fields contains the   *)
(* lower-cased search text (or the text is empty).  Stated for the runs of *)
(* the function on the Ready board.                                        *)
C5_FilterResult ==
    (pc = "Ready" /\ lastRun.handler \in {"input", "click"}) =>
        /\ lastRun.rendered
        /\ lastRun.jobsToRender = expected(allJobs, currentFilter, criteriaText)

(* C6: on success the filter controls are "All" followed by the distinct   *)
(* trimmed types present: "All" first, no token twice, and right after the *)
(* load exactly the first control is active.                               *)
C6_FilterControls ==
    pc = "Ready" =>
        /\ Len(filterCategoriesDiv) >= 1
        /\ filterCategoriesDiv[1].type = All
        /\ \A i, j \in DOMAIN filterCategoriesDiv :
               i # j => filterCategoriesDiv[i].type # filterCategoriesDiv[j].type
        /\ {filterCategoriesDiv[i].type : i \in 2..Len(filterCategoriesDiv)} =
               {trim(allJobs[k][type]) : k \in DOMAIN allJobs}
        /\ lastRun.handler = "initJobBoard" =>
               \A i \in DOMAIN filterCategoriesDiv :
                   filterCategoriesDiv[i].active <=> (i = 1)

(* C7: on the Ready board every record of allJobs has a non-empty jobTitle *)
(* that is not "jobtitle" in any letter case, and allJobs is the parsed    *)
(* records with exactly the bad-titled ones left out.                      *)
C7_ValidRecords ==
    pc = "Ready" =>
        /\ \A k \in DOMAIN allJobs : ~badTitle(allJobs[k])
        /\ \A i \in 1..Len(parseCSV(csvText)) :
               badTitle(parseCSV(csvText)[i]) =>
                   parseCSV(csvText)[i] \notin Range(allJobs)
        /\ Len(allJobs) =
               Cardinality({i \in 1..Len(parseCSV(csvText)) :
                               ~badTitle(parseCSV(csvText)[i])})

\* a Ready board whose response held a row titled with the header token
C7_Witness ==
    /\ pc = "Ready"
    /\ \E i \in 1..Len(parseCSV(csvText)) :
           /\ present(parseCSV(csvText)[i], jobTitle)
           /\ toLowerCase(parseCSV(csvText)[i][jobTitle]) = <<"j","o","b","t","i","t","l","e">>
    /\ Len(allJobs) < Len(parseCSV(csvText))

(* C10: on the Ready board, however search events, filter events and the   *)
(* resolution of the fetch interleave, the cards shown are those of the    *)
(* records matching the current category and the current search text.     *)
(* Stated for the states that the last handler left without an exception.  *)
C10_DisplayMatchesCriteria ==
    (pc = "Ready" /\ ~lastRun.threw) =>
        jobCardsContainer.cards =
            cardsOf(expected(allJobs, currentFilter, criteriaText))

----------------------------------------------------------------------------
(* Properties of parseCSV (SpecParse) and createJobCardHTML (SpecCard) *)

\* the lines of the text, and the comma-separated tokens of a line
linesOf(text) == split(trim(text), "\n")
tokensOf(line) == split(line, ",")

\* a token with surrounding whitespace trimmed and double quotes stripped
clean(tok) == SelectSeq(trim(tok), LAMBDA c : c # "\"")

\* lower camel case of a header label: spaces dropped, every letter that
\* follows a space in upper case, every other letter in lower case
camelKey(label) ==
    LET marked == [p \in 1..Len(label) |->
                      IF p > 1 /\ label[p-1] = " "
                      THEN toUpperCaseChar(label[p])
                      ELSE toLowerCaseChar(label[p])]
    IN  SelectSeq(marked, LAMBDA c : c # " ")

columnKey(text, i) == camelKey(clean(tokensOf(linesOf(text)[1])[i]))

columns(text) == 1..Len(tokensOf(linesOf(text)[1]))

\* the value of column i in data line n: its cleaned token, or absent
columnValue(text, n, i) ==
    LET toks == tokensOf(linesOf(text)[n + 1])
    IN  IF i <= Len(toks) THEN clean(toks[i]) ELSE Undefined

exampleRecords == << (jobTitle :> <<"D","e","v">>) @@ (company :> <<"A","c","m","e">>) >>

(* C8 as stated: parseCSV returns one record per data line, in order, and  *)
(* the record maps the key of every column i to the cleaned i-th token of  *)
(* the line (absent past the end of the line), with no other key.          *)
C8_ParseEveryColumn ==
    pc = "return" =>
        /\ Len(callRet) = Len(linesOf(callArg)) - 1
        /\ \A n \in DOMAIN callRet :
               /\ DOMAIN callRet[n] = {columnKey(callArg, i) : i \in columns(callArg)}
               /\ \A i \in columns(callArg) :
                      callRet[n][columnKey(callArg, i)] = columnValue(callArg, n, i)
        /\ callArg = ExampleText => callRet = exampleRecords

(* C8 amended: as above, except that when several columns have the same    *)
(* normalized key the record maps that key to the value of the last of     *)
(* those columns.                                                           *)
C8_ParseLastColumnWins ==
    pc = "return" =>
        /\ Len(callRet) = Len(linesOf(callArg)) - 1
        /\ \A n \in DOMAIN callRet :
               /\ DOMAIN callRet[n] = {columnKey(callArg, i) : i \in columns(callArg)}
               /\ \A i \in columns(callArg) :
                      (\A j \in columns(callArg) :
                           j > i => columnKey(callArg, j) # columnKey(callArg, i))
                      => callRet[n][columnKey(callArg, i)] = columnValue(callArg, n, i)
        /\ callArg = ExampleText => callRet = exampleRecords

\* a text with two columns of the same key, parsed into at least one record
\* in which the two columns hold different values
C8_Witness ==
    /\ pc = "return"
    /\ Len(callRet) >= 1
    /\ \E i, j \in columns(callArg) :
           /\ i < j
           /\ columnKey(callArg, i) = columnKey(callArg, j)
           /\ columnValue(callArg, 1, i) # columnValue(callArg, 1, j)

\* the trimmed status of the record is a closing status
closingStatus(job) ==
    /\ present(job, status)
    /\ trim(job[status]) \in { <<"E","x","p","i","r","e","d">>, <<"F","i","l","l","e","d">> }

(* C9: a rendered card is closed (closed badge, disabled control labelled  *)
(* "Application Expired" / "Application Filled", no link) iff the trimmed  *)
(* status is exactly "Expired" or "Filled"; otherwise it is open with a    *)
(* link to applyLink; a record without status renders as one with status   *)
(* "Active".                                                               *)
C9_StatusGatesApply ==
    pc = "return" =>
        /\ ~callRet.threw =>
               IF closingStatus(callArg)
               THEN /\ callRet.badgeClass = "status-closed"
                    /\ callRet.applyTag = "button"
                    /\ callRet.applyHref = <<>>
                    /\ callRet.applyLabel = <<"A","p","p","l","i","c","a","t","i","o","n"," ">> \o trim(callArg[status])
               ELSE /\ callRet.badgeClass = "status-active"
                    /\ callRet.applyTag = "a"
                    /\ callRet.applyHref = interpolate(get(callArg, applyLink))
                    /\ callRet.applyLabel = <<"A","p","p","l","y"," ","N","o","w">>
        /\ ~present(callArg, status) =>
               callRet = createJobCardHTML([callArg EXCEPT ![status] = <<"A","c","t","i","v","e">>])

\* a card rendered for a record whose status is " Expired"
C9_Witness ==
    /\ pc = "return"
    /\ ~callRet.threw
    /\ get(callArg, status) = <<" ","E","x","p","i","r","e","d">>
    /\ callRet.applyTag = "button"
    /\ callRet.applyLabel = <<"A","p","p","l","i","c","a","t","i","o","n"," ","E","x","p","i","r","e","d">>

====
